---- MODULE Spec2Model ----
(***************************************************************************)
(* svg_drawing: points_from_path_segments (src/svg/svg_curve.rs) and the   *)
(* geometry it uses (src/svg/math.rs, point.rs, tick_timer.rs).            *)
(*                                                                         *)
(* Numbers.  The program computes in f64.  Here                            *)
(*   - a coordinate is a whole part and a fractional part counted in       *)
(*     units of 1/FracDen, so that the Bezier samples at every tick are    *)
(*     exact;                                                              *)
(*   - a scalar (ratio, radius, angle) is an exact rational <<n, d>>;      *)
(*   - time is counted in ticks, TicksPerUnit ticks make 1.0.  In Spec and *)
(*     SpecPull the timer yields the exact multiples of TICK_PERIOD and    *)
(*     the error f64 gathers by adding 0.001 repeatedly is left out; in    *)
(*     SpecTimer, SpecF64 and SpecF64Fair the time of the timer is the     *)
(*     f64 itself, bit for bit;                                            *)
(*   - an angle is counted in quarter turns (pi/2), where cos, sin and     *)
(*     acos are exact on the values the model feeds them;                  *)
(*   - the rounding of the trigonometric evaluation of an ellipse sample   *)
(*     is a nondeterministic perturbation of at most one fractional unit.  *)
(* Products by the Bezier weights 0 and 1 are exact in IEEE arithmetic, so *)
(* the first and the last Bezier sample carry no rounding.                 *)
(***************************************************************************)
EXTENDS Integers, Sequences, FiniteSets, TLC

\* ------------------------------------------------------------------------
\* Time: TickTimer::TICK_PERIOD is 0.001, i.e. 1000 ticks per unit of time.
TicksPerUnit == 1000

TICK_PERIOD == 1

\* 1.0 in ticks
OneTick == TicksPerUnit

\* denominator of the fractional part of a coordinate
FracDen == TicksPerUnit * TicksPerUnit * TicksPerUnit

\* split base used to multiply a coordinate by a weight without overflow
SplitBase == TicksPerUnit * TicksPerUnit

\* ------------------------------------------------------------------------
\* Option<T>
None == <<>>

Some(v) == <<v>>

IsSome(o) == Len(o) = 1

Unwrap(o) == o[1]

\* ------------------------------------------------------------------------
\* Exact rationals <<n, d>>, d > 0, in lowest terms
Abs(n) == IF n < 0 THEN -n ELSE n

Sign(n) == IF n < 0 THEN -1 ELSE IF n > 0 THEN 1 ELSE 0

RECURSIVE Gcd(_, _)
Gcd(a, b) == IF b = 0 THEN a ELSE Gcd(b, a % b)

QNorm(n, d) ==
    LET g == Gcd(Abs(n), Abs(d))
        s == IF d < 0 THEN -1 ELSE 1
    IN  <<(s * n) \div g, (s * d) \div g>>

QInt(n) == <<n, 1>>

QZero == QInt(0)

QOne == QInt(1)

QAdd(a, b) == QNorm(a[1] * b[2] + b[1] * a[2], a[2] * b[2])

QNeg(a) == <<-a[1], a[2]>>

QSub(a, b) == QAdd(a, QNeg(b))

QMul(a, b) == QNorm(a[1] * b[1], a[2] * b[2])

\* division by a non-zero rational
QDiv(a, b) == QNorm(a[1] * b[2], a[2] * b[1])

QAbs(a) == <<Abs(a[1]), a[2]>>

QLess(a, b) == a[1] * b[2] < b[1] * a[2]

QIsZero(a) == a[1] = 0

\* the largest s in lo..hi with s * s <= n, by bisection (lo * lo <= n)
RECURSIVE Bisect(_, _, _)
Bisect(n, lo, hi) ==
    IF lo >= hi THEN lo
    ELSE LET mid == (lo + hi + 1) \div 2
         IN  IF mid <= n \div mid THEN Bisect(n, mid, hi) ELSE Bisect(n, lo, mid - 1)

ISqrt(n) == Bisect(n, 0, n)

IsSquare(n) == n >= 0 /\ ISqrt(n) * ISqrt(n) = n

\* f64::sqrt on the rationals whose root is rational
QHasSqrt(a) == IsSquare(a[1]) /\ IsSquare(a[2])

QSqrt(a) == <<ISqrt(a[1]), ISqrt(a[2])>>

\* the % of f64 (fmod): the result has the sign of the dividend
QRem(a, m) ==
    LET k == (Abs(a[1]) * m[2]) \div (a[2] * m[1])
        r == QSub(QAbs(a), QMul(QInt(k), m))
    IN  IF a[1] < 0 THEN QNeg(r) ELSE r

\* ------------------------------------------------------------------------
\* Point (src/svg/point.rs): x + fx/FracDen, y + fy/FracDen, 0 <= fx, fy < FracDen
Point_new(x, y) == [x |-> x, y |-> y, fx |-> 0, fy |-> 0]

ZERO == Point_new(0, 0)

IsWhole(p) == p.fx = 0 /\ p.fy = 0

\* impl Add<Point> for Point
Point_add(a, b) ==
    LET sx == a.fx + b.fx
        sy == a.fy + b.fy
    IN  [x |-> a.x + b.x + (sx \div FracDen), y |-> a.y + b.y + (sy \div FracDen),
         fx |-> sx % FracDen, fy |-> sy % FracDen]

\* impl Sub<Point> for Point
Point_sub(a, b) ==
    LET sx == a.fx - b.fx
        sy == a.fy - b.fy
    IN  [x |-> a.x - b.x + (sx \div FracDen), y |-> a.y - b.y + (sy \div FracDen),
         fx |-> sx % FracDen, fy |-> sy % FracDen]

\* sum_i c[i] * f(w[i]) over i in 1..n, for the high or the low part of a weight
RECURSIVE SumHi(_, _, _)
SumHi(c, w, n) == IF n = 0 THEN 0 ELSE c[n] * (w[n] \div SplitBase) + SumHi(c, w, n - 1)

RECURSIVE SumLo(_, _, _)
SumLo(c, w, n) == IF n = 0 THEN 0 ELSE c[n] * (w[n] % SplitBase) + SumLo(c, w, n - 1)

\* One coordinate of sum_i c[i] * w[i] / FracDen for whole coordinates c and
\* weights w (numerators over FracDen), as <<whole, frac>>.  Each weight is
\* split at SplitBase so that no product leaves the machine integers.
WeightedCoord(c, w) ==
    LET lo0 == SumLo(c, w, Len(c))
        hi  == SumHi(c, w, Len(c)) + (lo0 \div SplitBase)
        lo  == lo0 % SplitBase
    IN  <<hi \div TicksPerUnit, (hi % TicksPerUnit) * SplitBase + lo>>

\* impl Mul<f64> for Point and the sums of such products, for whole points ps
WeightedSum(ps, w) ==
    LET cx == WeightedCoord([i \in DOMAIN ps |-> ps[i].x], w)
        cy == WeightedCoord([i \in DOMAIN ps |-> ps[i].y], w)
    IN  [x |-> cx[1], y |-> cy[1], fx |-> cx[2], fy |-> cy[2]]

\* ------------------------------------------------------------------------
\* math.rs: SquareCurve, CubicCurve.  time is in ticks.
SquareCurve_new(start, p1, end) == [start |-> start, p1 |-> p1, end |-> end]

\* a quadratic whose middle weight lacks the factor 2
SquareCurve_at_unweighted(self, time) ==
    LET diff        == OneTick - time
        square_t    == time * time
        square_diff == diff * diff
    IN  WeightedSum(<<self.start, self.p1, self.end>>,
                    <<square_diff * TicksPerUnit,
                      time * diff * TicksPerUnit,
                      square_t * TicksPerUnit>>)

SquareCurve_at(self, time) ==
    LET diff        == OneTick - time
        square_t    == time * time
        square_diff == diff * diff
    IN  WeightedSum(<<self.start, self.p1, self.end>>,
                    <<square_diff * TicksPerUnit,
                      2 * time * diff * TicksPerUnit,
                      square_t * TicksPerUnit>>)

CubicCurve_new(start, p1, p2, end) == [start |-> start, p1 |-> p1, p2 |-> p2, end |-> end]

CubicCurve_at(self, time) ==
    LET diff        == OneTick - time
        square_t    == time * time
        cube_t      == square_t * time
        square_diff == diff * diff
        cube_diff   == square_diff * diff
    IN  WeightedSum(<<self.start, self.p1, self.p2, self.end>>,
                    <<cube_diff,
                      3 * time * square_diff,
                      3 * square_t * diff,
                      cube_t>>)

\* math.rs: const EPSILON: f64 = 0.05
EPSILON == <<1, 20>>

\* a lane test that no point passes when the lane has no length
is_point_on_lane_with_length(lane_start, lane_end, p) ==
    LET vector     == Point_sub(lane_end, lane_start)
        left_part  == IF vector.x = 0 THEN QZero
                      ELSE QDiv(QInt(p.x - lane_start.x), QInt(vector.x))
        right_part == IF vector.y = 0 THEN QZero
                      ELSE QDiv(QInt(p.y - lane_start.y), QInt(vector.y))
        is_on_lane == QSub(left_part, right_part)
    IN  /\ vector # ZERO
        /\ QLess(QAbs(is_on_lane), EPSILON)

is_point_on_lane(lane_start, lane_end, p) ==
    LET vector     == Point_sub(lane_end, lane_start)
        left_part  == IF vector.x = 0 THEN QZero
                      ELSE QDiv(QInt(p.x - lane_start.x), QInt(vector.x))
        right_part == IF vector.y = 0 THEN QZero
                      ELSE QDiv(QInt(p.y - lane_start.y), QInt(vector.y))
        is_on_lane == QSub(left_part, right_part)
    IN  QLess(QAbs(is_on_lane), EPSILON)

\* ------------------------------------------------------------------------
\* tick_timer.rs: TickTimer
TickTimer_default == [time |-> 0]

\* Iterator for TickTimer: <<item, self afterwards>>
TickTimer_next(self) ==
    IF self.time > OneTick
    THEN <<None, self>>
    ELSE LET current_value == self.time
         IN  <<Some(current_value), [self EXCEPT !.time = self.time + TICK_PERIOD]>>

\* a timer that stops before the time 1.0 instead of after it
TickTimer_count_exclusive(self) ==
    IF self.time >= OneTick THEN 0 ELSE (OneTick - 1 - self.time) \div TICK_PERIOD + 1

\* the values a timer yields until it returns None: how many, and the last
TickTimer_count(self) ==
    IF self.time > OneTick THEN 0 ELSE ((OneTick - self.time) \div TICK_PERIOD) + 1

TickTimer_last(self) == self.time + (TickTimer_count(self) - 1) * TICK_PERIOD

\* ------------------------------------------------------------------------
\* tick_timer.rs in f64.  TickTimer.time is an f64 that only ever holds sums
\* of TICK_PERIOD below 2: such a value is a whole number of units of
\* 2^-F64UnitBits, written here as three limbs of LimbBits bits, the most
\* significant first, and an addition rounds the exact sum to the
\* F64MantissaBits significant bits of the format (nearest, ties to even).
LimbBits == 21

F64UnitBits == 62

F64MantissaBits == 53

Limb == 2 ^ LimbBits

\* the top limb counts units of 2^-TopBits
TopBits == F64UnitBits - 2 * LimbBits

F64_ZERO == <<0, 0, 0>>

\* 1.0
F64_ONE == <<2 ^ TopBits, 0, 0>>

\* a period of half a tick
F64_HALF_TICK_PERIOD == <<524, 603979, 1627390>>

\* the f64 nearest to 0.001: 0x10624DD2F1A9FC * 2^-62
F64_TICK_PERIOD == <<1048, 1207959, 1157628>>

F64_less(a, b) ==
    \/ a[1] < b[1]
    \/ a[1] = b[1] /\ a[2] < b[2]
    \/ a[1] = b[1] /\ a[2] = b[2] /\ a[3] < b[3]

\* position of the highest set bit of n > 0
RECURSIVE Log2(_)
Log2(n) == IF n < 2 THEN 0 ELSE 1 + Log2(n \div 2)

\* limbs brought back below Limb, carries moved up
F64_carry(a2, a1, a0) ==
    LET c0 == a0 \div Limb
        c1 == (a1 + c0) \div Limb
    IN  <<a2 + c1, (a1 + c0) % Limb, a0 % Limb>>

\* the sum before rounding
F64_exact_add(a, b) == F64_carry(a[1] + b[1], a[2] + b[2], a[3] + b[3])

\* how many low bits of a value do not fit the mantissa
F64_dropped_bits(s) ==
    IF s[1] = 0 THEN 0
    ELSE LET q == Log2(s[1]) + 2 * LimbBits - (F64MantissaBits - 1)
         IN  IF q > 0 THEN q ELSE 0

\* round to nearest, ties to even
F64_round(s) ==
    LET q    == F64_dropped_bits(s)
        ulp  == 2 ^ q
        r    == s[3] % ulp
        down == s[3] - r
        up   == \/ 2 * r > ulp
                \/ 2 * r = ulp /\ (down \div ulp) % 2 = 1
    IN  IF q = 0 THEN s
        ELSE F64_carry(s[1], s[2], IF up THEN down + ulp ELSE down)

\* a + b in f64
F64_add(a, b) == F64_round(F64_exact_add(a, b))

\* the tick whose exact time is the nearest to the f64 time t
NearestTick(t) == (t[1] * TicksPerUnit + 2 ^ (TopBits - 1)) \div 2 ^ TopBits

F64TickTimer_default == [time |-> F64_ZERO]

\* Iterator for TickTimer, on f64: <<item, self afterwards>>
F64TickTimer_next(self) ==
    IF F64_less(F64_ONE, self.time)
    THEN <<None, self>>
    ELSE LET current_value == self.time
         IN  <<Some(current_value),
               [self EXCEPT !.time = F64_add(self.time, F64_TICK_PERIOD)]>>

\* ------------------------------------------------------------------------
\* svg_curve.rs: LineTo, MoveType, SupportPoint
MoveTypes == {"Fly", "Draw", "Erase"}

LineTo_new(point, move_type) == [tag |-> move_type, point |-> point]

SupportPoint_new(path_command, point) == [path_command |-> path_command, point |-> point]

\* svgtypes::PathCommand
PathCommands ==
    {"MoveTo", "LineTo", "HorizontalLineTo", "VerticalLineTo", "CurveTo",
     "SmoothCurveTo", "Quadratic", "SmoothQuadratic", "EllipticalArc", "ClosePath"}

\* svgtypes::PathSegment; the fields a command does not carry are 0 / FALSE
PathSegment(cmd, abs, x1, y1, x2, y2, x, y) ==
    [cmd |-> cmd, abs |-> abs, x1 |-> x1, y1 |-> y1, x2 |-> x2, y2 |-> y2,
     x |-> x, y |-> y, rx |-> 0, ry |-> 0, x_axis_rotation |-> 0,
     large_arc |-> FALSE, sweep |-> FALSE]

EllipticalArc(abs, rx, ry, x_axis_rotation, large_arc, sweep, x, y) ==
    [cmd |-> "EllipticalArc", abs |-> abs, x1 |-> 0, y1 |-> 0, x2 |-> 0, y2 |-> 0,
     x |-> x, y |-> y, rx |-> rx, ry |-> ry, x_axis_rotation |-> x_axis_rotation,
     large_arc |-> large_arc, sweep |-> sweep]

\* ------------------------------------------------------------------------
\* svg_curve.rs: the point iterators
EmptyPointIterator(end) == [variant |-> "Empty", end |-> end]

LinePointIterator_new(end, move_type) ==
    [variant |-> "Line", end |-> end, move_type |-> move_type, done |-> FALSE,
     support_point |-> None]

\* a degraded curve that forgets its support point
LinePointIterator_without_support(end, move_type, support_point) ==
    [variant |-> "Line", end |-> end, move_type |-> move_type, done |-> FALSE,
     support_point |-> None]

LinePointIterator_with_support(end, move_type, support_point) ==
    [variant |-> "Line", end |-> end, move_type |-> move_type, done |-> FALSE,
     support_point |-> support_point]

SquareCurvePointIterator(time, calc_formula, support_point) ==
    [variant |-> "SquareCurve", time |-> time, calc_formula |-> calc_formula,
     support_point |-> support_point]

CubicCurvePointIterator(time, calc_formula, support_point) ==
    [variant |-> "CubicCurve", time |-> time, calc_formula |-> calc_formula,
     support_point |-> support_point]

EllipsePointIterator(time, calc_formula, end) ==
    [variant |-> "EllipseCurve", time |-> time, calc_formula |-> calc_formula,
     end |-> end]

\* coordinates always taken as relative
absolute_point_coord_always_relative(start, abs, x, y) ==
    Point_add(Point_new(x, y), start)

absolute_point_coord(start, abs, x, y) ==
    IF abs THEN Point_new(x, y) ELSE Point_add(Point_new(x, y), start)

\* a condition that takes the support point of either family
path_command_condition_any(prev_support_point, curve_type) ==
    prev_support_point.path_command \in
        {"CurveTo", "SmoothCurveTo", "Quadratic", "SmoothQuadratic"}

path_command_condition(prev_support_point, curve_type) ==
    IF curve_type = "Cubic"
    THEN prev_support_point.path_command = "SmoothCurveTo"
         \/ prev_support_point.path_command = "CurveTo"
    ELSE prev_support_point.path_command = "SmoothQuadratic"
         \/ prev_support_point.path_command = "Quadratic"

\* a mirror that forgets to make the absolute form absolute
mirrored_point_offset_only(current, abs, prev_support_point_opt, curve_type) ==
    IF IsSome(prev_support_point_opt)
       /\ prev_support_point_opt[1].path_command \in
              (IF curve_type = "Cubic" THEN {"SmoothCurveTo", "CurveTo"}
               ELSE {"SmoothQuadratic", "Quadratic"})
    THEN Point_sub(current, prev_support_point_opt[1].point)
    ELSE ZERO

\* a mirror that makes the relative form absolute too
mirrored_point_always_absolute(current, abs, prev_support_point_opt, curve_type) ==
    IF IsSome(prev_support_point_opt)
       /\ prev_support_point_opt[1].path_command \in
              (IF curve_type = "Cubic" THEN {"SmoothCurveTo", "CurveTo"}
               ELSE {"SmoothQuadratic", "Quadratic"})
    THEN Point_add(Point_sub(current, prev_support_point_opt[1].point), current)
    ELSE current

mirrored_point(current, abs, prev_support_point_opt, curve_type) ==
    LET mirrored ==
            IF IsSome(prev_support_point_opt)
               /\ path_command_condition(Unwrap(prev_support_point_opt), curve_type)
            THEN Point_sub(current, Unwrap(prev_support_point_opt).point)
            ELSE ZERO
    IN  IF abs THEN Point_add(mirrored, current) ELSE mirrored

\* a MoveTo that leaves a trace
move_to_drawing(current, abs, x, y) ==
    LET end_point == absolute_point_coord(current, abs, x, y)
    IN  LinePointIterator_new(end_point, "Draw")

move_to(current, abs, x, y) ==
    LET end_point == absolute_point_coord(current, abs, x, y)
    IN  LinePointIterator_new(end_point, "Fly")

line_to(current, abs, x, y) ==
    LET end_point == absolute_point_coord(current, abs, x, y)
    IN  LinePointIterator_new(end_point, "Draw")

cubic_curve_to(current, abs, x1, y1, x2, y2, x, y, next_segment) ==
    LET time          == TickTimer_default
        p1            == absolute_point_coord(current, abs, x1, y1)
        p2            == absolute_point_coord(current, abs, x2, y2)
        end_point     == absolute_point_coord(current, abs, x, y)
        support_point == Some(SupportPoint_new(next_segment.cmd, p2))
        p1_on_lane    == is_point_on_lane(current, end_point, p1)
        p2_on_lane    == is_point_on_lane(current, end_point, p2)
    IN  IF p1_on_lane /\ p2_on_lane
        THEN LinePointIterator_with_support(end_point, "Draw", support_point)
        ELSE CubicCurvePointIterator(time, CubicCurve_new(current, p1, p2, end_point),
                                     support_point)

smooth_cubic_curve_to(current, abs, x2, y2, x, y, prev_support_point_opt, next_segment) ==
    LET p1 == mirrored_point(current, abs, prev_support_point_opt, "Cubic")
    IN  cubic_curve_to(current, abs, p1.x, p1.y, x2, y2, x, y, next_segment)

quadratic_curve_to(current, abs, x1, y1, x, y, next_segment) ==
    LET time          == TickTimer_default
        p1            == absolute_point_coord(current, abs, x1, y1)
        end_point     == absolute_point_coord(current, abs, x, y)
        support_point == Some(SupportPoint_new(next_segment.cmd, Point_new(p1.x, p1.y)))
        p1_on_lane    == is_point_on_lane(current, end_point, p1)
    IN  IF p1_on_lane
        THEN LinePointIterator_with_support(end_point, "Draw", support_point)
        ELSE SquareCurvePointIterator(time, SquareCurve_new(current, p1, end_point),
                                      support_point)

smooth_quadratic_curve_to(current, abs, x, y, prev_support_point_opt, next_segment) ==
    LET p1 == mirrored_point(current, abs, prev_support_point_opt, "Quadratic")
    IN  quadratic_curve_to(current, abs, p1.x, p1.y, x, y, next_segment)

\* ------------------------------------------------------------------------
\* Angles in quarter turns: PI is 2 quarter turns, 90 degrees are 1.
PI == QInt(2)

\* PI / 180.0 converts degrees: a quarter turn is 90 of them
DegreesPerQuarter == 180 \div 2

IsQuarter(a) == a[2] = 1

\* f64::cos, f64::sin at a whole number of quarter turns
Cos(a) == LET q == a[1] % 4 IN QInt(IF q = 0 THEN 1 ELSE IF q = 2 THEN -1 ELSE 0)

Sin(a) == LET q == a[1] % 4 IN QInt(IF q = 1 THEN 1 ELSE IF q = 3 THEN -1 ELSE 0)

\* f64::acos at -1, 0, 1
HasAcos(v) == v \in {QInt(-1), QZero, QOne}

Acos(v) == IF v = QOne THEN QZero ELSE IF v = QZero THEN QOne ELSE PI

sqr(x) == QMul(x, x)

\* math.rs: angle_between, on vectors of rationals <<x, y>>: p / n
angle_between_cos(start, end) ==
    QDiv(QAdd(QMul(start[1], end[1]), QMul(start[2], end[2])),
         QSqrt(QMul(QAdd(sqr(start[1]), sqr(start[2])),
                    QAdd(sqr(end[1]), sqr(end[2])))))

angle_between(start, end) ==
    LET sign == IF QLess(QSub(QMul(start[1], end[2]), QMul(start[2], end[1])), QZero)
                THEN QInt(-1) ELSE QOne
    IN  QMul(sign, Acos(angle_between_cos(start, end)))

\* math.rs: ellipse_support_calc, the half chord in the frame of the ellipse
ellipse_half_chord(current, rx, ry, x_axis_rotation, end_x, end_y) ==
    LET rx_abs         == QInt(Abs(rx))
        ry_abs         == QInt(Abs(ry))
        x_rad_rotation == QNorm(Sign(x_axis_rotation) * (Abs(x_axis_rotation) % 360),
                                DegreesPerQuarter)
        dx             == QNorm(current.x - end_x, 2)
        dy             == QNorm(current.y - end_y, 2)
        dx_rotated     == QAdd(QMul(Cos(x_rad_rotation), dx), QMul(Sin(x_rad_rotation), dy))
        dy_rotated     == QAdd(QMul(QNeg(Sin(x_rad_rotation)), dx),
                               QMul(Cos(x_rad_rotation), dy))
        radii_check    == QAdd(QDiv(sqr(dx_rotated), sqr(rx_abs)),
                               QDiv(sqr(dy_rotated), sqr(ry_abs)))
    IN  [x_rad_rotation |-> x_rad_rotation, dx_rotated |-> dx_rotated,
         dy_rotated |-> dy_rotated, radii_check |-> radii_check,
         rx_abs |-> rx_abs, ry_abs |-> ry_abs]

\* math.rs: ellipse_support_calc, the radii scaled up when they cannot span
\* the chord (h is the half chord above)
ellipse_scale_radii(h) ==
    IF QLess(QOne, h.radii_check)
    THEN [h EXCEPT !.rx_abs = QMul(QSqrt(h.radii_check), h.rx_abs),
                   !.ry_abs = QMul(QSqrt(h.radii_check), h.ry_abs)]
    ELSE h

ellipse_radii(current, rx, ry, x_axis_rotation, end_x, end_y) ==
    ellipse_scale_radii(ellipse_half_chord(current, rx, ry, x_axis_rotation, end_x, end_y))

\* math.rs: ellipse_support_calc, the clamped radicand of the centre
ellipse_center_radicand(r) ==
    LET center_square_numerator ==
            QSub(QSub(QMul(sqr(r.rx_abs), sqr(r.ry_abs)),
                      QMul(sqr(r.rx_abs), sqr(r.dy_rotated))),
                 QMul(sqr(r.ry_abs), sqr(r.dx_rotated)))
        center_square_root_denom ==
            QAdd(QMul(sqr(r.rx_abs), sqr(r.dy_rotated)),
                 QMul(sqr(r.ry_abs), sqr(r.dx_rotated)))
        center_radicand == QDiv(center_square_numerator, center_square_root_denom)
    IN  IF QLess(center_radicand, QZero) THEN QZero ELSE center_radicand

\* math.rs: ellipse_support_calc, the signed root of the radicand
ellipse_center_coef(center_radicand, large_arc, sweep) ==
    LET sqrt == QSqrt(center_radicand)
    IN  IF large_arc # sweep THEN sqrt ELSE QNeg(sqrt)

\* math.rs: ellipse_support_calc, the centre in the frame of the ellipse
ellipse_center_rotated(r, center_coef) ==
    <<QMul(center_coef, QDiv(QMul(r.rx_abs, r.dy_rotated), r.ry_abs)),
      QMul(center_coef, QDiv(QMul(QNeg(r.ry_abs), r.dx_rotated), r.rx_abs))>>

\* math.rs: ellipse_support_calc, the centre and the start and end vectors
\* from the radii r and the rotated centre cr
ellipse_center_of(r, cr, current, end_x, end_y) ==
    [center_x |-> QAdd(QSub(QMul(Cos(r.x_rad_rotation), cr[1]),
                            QMul(Sin(r.x_rad_rotation), cr[2])),
                       QNorm(current.x + end_x, 2)),
     center_y |-> QAdd(QAdd(QMul(Sin(r.x_rad_rotation), cr[1]),
                            QMul(Cos(r.x_rad_rotation), cr[2])),
                       QNorm(current.y + end_y, 2)),
     start_vector |-> <<QDiv(QSub(r.dx_rotated, cr[1]), r.rx_abs),
                        QDiv(QSub(r.dy_rotated, cr[2]), r.ry_abs)>>,
     end_vector |-> <<QDiv(QSub(QNeg(r.dx_rotated), cr[1]), r.rx_abs),
                      QDiv(QSub(QNeg(r.dy_rotated), cr[2]), r.ry_abs)>>]

ellipse_center_from(r, large_arc, sweep, current, end_x, end_y) ==
    ellipse_center_of(
        r,
        ellipse_center_rotated(
            r, ellipse_center_coef(ellipse_center_radicand(r), large_arc, sweep)),
        current, end_x, end_y)

ellipse_center(current, rx, ry, x_axis_rotation, large_arc, sweep, end_x, end_y) ==
    ellipse_center_from(ellipse_radii(current, rx, ry, x_axis_rotation, end_x, end_y),
                        large_arc, sweep, current, end_x, end_y)

\* a sweep angle left on the side angle_between gave it
ellipse_sweep_angle_unadjusted(sweep_angle, sweep) ==
    QRem(sweep_angle, QMul(QInt(2), PI))

\* math.rs: ellipse_support_calc, the sweep angle brought to the side the
\* sweep flag asks for
ellipse_sweep_angle(sweep_angle, sweep) ==
    QRem(IF ~sweep /\ QLess(QZero, sweep_angle)
         THEN QSub(sweep_angle, QMul(QInt(2), PI))
         ELSE IF sweep /\ QLess(sweep_angle, QZero)
              THEN QAdd(sweep_angle, QMul(QInt(2), PI))
              ELSE sweep_angle,
         QMul(QInt(2), PI))

\* math.rs: ellipse_support_calc, the result from the radii r and the centre c
ellipse_support_of(r, c, sweep) ==
    [start_angle |-> angle_between(<<QOne, QZero>>, c.start_vector),
     sweep_angle |-> ellipse_sweep_angle(angle_between(c.start_vector, c.end_vector),
                                         sweep),
     rx_abs |-> r.rx_abs, ry_abs |-> r.ry_abs, x_rad_rotation |-> r.x_rad_rotation,
     center_x |-> c.center_x, center_y |-> c.center_y]

ellipse_support_from(r, large_arc, sweep, current, end_x, end_y) ==
    ellipse_support_of(r, ellipse_center_from(r, large_arc, sweep, current, end_x, end_y),
                       sweep)

\* math.rs: ellipse_support_calc
ellipse_support_calc(current, rx, ry, x_axis_rotation, large_arc, sweep, end_x, end_y) ==
    ellipse_support_from(ellipse_radii(current, rx, ry, x_axis_rotation, end_x, end_y),
                         large_arc, sweep, current, end_x, end_y)

\* The inputs on which every sqrt, cos, sin and acos of ellipse_support_calc is
\* taken at a value where the model's exact functions are defined.
Norm2(v) == QAdd(sqr(v[1]), sqr(v[2]))

VectorsAreExact(c) ==
    /\ QHasSqrt(Norm2(c.start_vector))
    /\ QHasSqrt(QMul(Norm2(c.start_vector), Norm2(c.end_vector)))
    /\ HasAcos(angle_between_cos(<<QOne, QZero>>, c.start_vector))
    /\ HasAcos(angle_between_cos(c.start_vector, c.end_vector))

RadiiAreExact(r, large_arc, sweep, current, end_x, end_y) ==
    /\ QHasSqrt(ellipse_center_radicand(r))
    /\ VectorsAreExact(ellipse_center_from(r, large_arc, sweep, current, end_x, end_y))

HalfChordIsExact(h, large_arc, sweep, current, end_x, end_y) ==
    /\ QLess(QOne, h.radii_check) => QHasSqrt(h.radii_check)
    /\ RadiiAreExact(ellipse_scale_radii(h), large_arc, sweep, current, end_x, end_y)

ArcIsExact(current, rx, ry, x_axis_rotation, large_arc, sweep, end_x, end_y) ==
    /\ x_axis_rotation % DegreesPerQuarter = 0
    /\ HalfChordIsExact(ellipse_half_chord(current, rx, ry, x_axis_rotation, end_x, end_y),
                        large_arc, sweep, current, end_x, end_y)

\* a rational coordinate as whole part and fraction over FracDen
QCoord(a) == <<a[1] \div a[2], (a[1] % a[2]) * (FracDen \div a[2])>>

\* math.rs: EllipseCurve
EllipseCurve_new(start_angle, sweep_angle, rx_abs, ry_abs, x_rad_rotation, center_x, center_y) ==
    [start_angle |-> start_angle, sweep_angle |-> sweep_angle, rx_abs |-> rx_abs,
     ry_abs |-> ry_abs, x_rad_rotation |-> x_rad_rotation,
     center_x |-> center_x, center_y |-> center_y]

\* the exact value of EllipseCurve::at, for times whose angle is a whole
\* number of quarter turns
EllipseCurve_at_exact(self, time) ==
    LET angle               == QAdd(self.start_angle,
                                    QMul(self.sweep_angle, QNorm(time, OneTick)))
        ellipse_component_x == QMul(self.rx_abs, Cos(angle))
        ellipse_component_y == QMul(self.ry_abs, Sin(angle))
        point_x == QAdd(QSub(QMul(Cos(self.x_rad_rotation), ellipse_component_x),
                             QMul(Sin(self.x_rad_rotation), ellipse_component_y)),
                        self.center_x)
        point_y == QAdd(QAdd(QMul(Sin(self.x_rad_rotation), ellipse_component_x),
                             QMul(Cos(self.x_rad_rotation), ellipse_component_y)),
                        self.center_y)
        cx == QCoord(point_x)
        cy == QCoord(point_y)
    IN  [x |-> cx[1], y |-> cy[1], fx |-> cx[2], fy |-> cy[2]]

\* EllipseCurve::at as f64 computes it: the exact value moved by the rounding
\* <<ex, ey>> of the evaluation, in fractional units
EllipseCurve_at(self, time, rounding) ==
    LET p  == EllipseCurve_at_exact(self, time)
        sx == p.fx + rounding[1]
        sy == p.fy + rounding[2]
    IN  [x |-> p.x + (sx \div FracDen), y |-> p.y + (sy \div FracDen),
         fx |-> sx % FracDen, fy |-> sy % FracDen]

\* ------------------------------------------------------------------------
\* svg_curve.rs: ellipse_curve_to, the iterator over the arc f
ellipse_iterator(time, f, end_point) ==
    EllipsePointIterator(
        time,
        EllipseCurve_new(f.start_angle, f.sweep_angle, f.rx_abs, f.ry_abs,
                         f.x_rad_rotation, f.center_x, f.center_y),
        end_point)

\* an arc that tests the radii before the coincidence of its ends
ellipse_curve_to_radii_first(current, abs, rx, ry, x_axis_rotation, large_arc, sweep, end_x, end_y) ==
    LET end_point == absolute_point_coord(current, abs, end_x, end_y)
    IN  IF rx = 0 \/ ry = 0
        THEN line_to(current, abs, end_x, end_y)
        ELSE IF current = end_point
             THEN EmptyPointIterator(end_point)
             ELSE ellipse_iterator(
                      TickTimer_default,
                      ellipse_support_calc(current, rx, ry, x_axis_rotation, large_arc,
                                           sweep, end_point.x, end_point.y),
                      end_point)

\* an arc of radius zero that moves to its end without drawing
ellipse_curve_to_radius_flies(current, abs, rx, ry, x_axis_rotation, large_arc, sweep, end_x, end_y) ==
    LET end_point == absolute_point_coord(current, abs, end_x, end_y)
    IN  IF current = end_point
        THEN EmptyPointIterator(end_point)
        ELSE IF rx = 0 \/ ry = 0
             THEN move_to(current, abs, end_x, end_y)
             ELSE ellipse_iterator(
                      TickTimer_default,
                      ellipse_support_calc(current, rx, ry, x_axis_rotation, large_arc,
                                           sweep, end_point.x, end_point.y),
                      end_point)

\* svg_curve.rs: ellipse_curve_to
ellipse_curve_to(current, abs, rx, ry, x_axis_rotation, large_arc, sweep, end_x, end_y) ==
    LET end_point == absolute_point_coord(current, abs, end_x, end_y)
    IN  IF current = end_point
        THEN EmptyPointIterator(end_point)
        ELSE IF rx = 0 \/ ry = 0
             THEN line_to(current, abs, end_x, end_y)
             ELSE ellipse_iterator(
                      TickTimer_default,
                      ellipse_support_calc(current, rx, ry, x_axis_rotation, large_arc,
                                           sweep, end_point.x, end_point.y),
                      end_point)

calc_point_iterator(current, next_segment, prev_support_point_opt, path_start_point_arg) ==
    LET s == next_segment
    IN  CASE s.cmd = "MoveTo" -> move_to(current, s.abs, s.x, s.y)
          [] s.cmd = "LineTo" -> line_to(current, s.abs, s.x, s.y)
          [] s.cmd = "HorizontalLineTo" ->
                LET miss_coord == IF s.abs THEN current.y ELSE 0
                IN  line_to(current, s.abs, s.x, miss_coord)
          [] s.cmd = "VerticalLineTo" ->
                LET miss_coord == IF s.abs THEN current.x ELSE 0
                IN  line_to(current, s.abs, miss_coord, s.y)
          [] s.cmd = "CurveTo" ->
                cubic_curve_to(current, s.abs, s.x1, s.y1, s.x2, s.y2, s.x, s.y, s)
          [] s.cmd = "SmoothCurveTo" ->
                smooth_cubic_curve_to(current, s.abs, s.x2, s.y2, s.x, s.y,
                                      prev_support_point_opt, s)
          [] s.cmd = "Quadratic" ->
                quadratic_curve_to(current, s.abs, s.x1, s.y1, s.x, s.y, s)
          [] s.cmd = "SmoothQuadratic" ->
                smooth_quadratic_curve_to(current, s.abs, s.x, s.y, prev_support_point_opt, s)
          [] s.cmd = "EllipticalArc" ->
                ellipse_curve_to(current, s.abs, s.rx, s.ry, s.x_axis_rotation,
                                 s.large_arc, s.sweep, s.x, s.y)
          [] s.cmd = "ClosePath" ->
                line_to(current, TRUE, path_start_point_arg.x, path_start_point_arg.y)

\* impl PointIterator
PointIterator_support_point(self) ==
    CASE self.variant = "Empty" -> None
      [] self.variant = "Line" -> self.support_point
      [] self.variant = "SquareCurve" -> self.support_point
      [] self.variant = "CubicCurve" -> self.support_point
      [] self.variant = "EllipseCurve" -> None

PointIterator_end_position(self) ==
    CASE self.variant = "Empty" -> self.end
      [] self.variant = "Line" -> self.end
      [] self.variant = "SquareCurve" -> SquareCurve_at(self.calc_formula, OneTick)
      [] self.variant = "CubicCurve" -> CubicCurve_at(self.calc_formula, OneTick)
      [] self.variant = "EllipseCurve" -> self.end

PointIterator_move_type(self) ==
    CASE self.variant = "Empty" -> "Fly"
      [] self.variant = "Line" -> self.move_type
      [] self.variant = "SquareCurve" -> "Draw"
      [] self.variant = "CubicCurve" -> "Draw"
      [] self.variant = "EllipseCurve" -> "Draw"

\* the curve point of a sampling iterator at a time the timer yielded
PointIterator_at(self, time, rounding) ==
    CASE self.variant = "SquareCurve" -> SquareCurve_at(self.calc_formula, time)
      [] self.variant = "CubicCurve" -> CubicCurve_at(self.calc_formula, time)
      [] self.variant = "EllipseCurve" -> EllipseCurve_at(self.calc_formula, time, rounding)

\* impl Iterator for PointIterator: <<item, self afterwards>>
PointIterator_next(self, rounding) ==
    CASE self.variant = "Empty" -> <<None, self>>
      [] self.variant = "Line" ->
            IF self.done THEN <<None, self>>
            ELSE <<Some(self.end), [self EXCEPT !.done = TRUE]>>
      [] OTHER ->
            LET t == TickTimer_next(self.time)
            IN  IF IsSome(t[1])
                THEN <<Some(PointIterator_at(self, Unwrap(t[1]), rounding)),
                       [self EXCEPT !.time = t[2]]>>
                ELSE <<None, [self EXCEPT !.time = t[2]]>>

\* how many points next() yields before None, the last of them, and self then
PointIterator_count(self) ==
    CASE self.variant = "Empty" -> 0
      [] self.variant = "Line" -> IF self.done THEN 0 ELSE 1
      [] OTHER -> TickTimer_count(self.time)

PointIterator_last(self, rounding) ==
    CASE self.variant = "Line" -> self.end
      [] OTHER -> PointIterator_at(self, TickTimer_last(self.time), rounding)

PointIterator_drained(self) ==
    CASE self.variant = "Empty" -> self
      [] self.variant = "Line" -> [self EXCEPT !.done = TRUE]
      [] OTHER -> [self EXCEPT !.time.time =
                        self.time.time + TickTimer_count(self.time) * TICK_PERIOD]

\* ------------------------------------------------------------------------
\* points_from_path_segments: the state captured by the flat_map closure, the
\* inner iterator flat_map holds, and what has been observed so far.
VARIABLES
    current_point,                  \* let mut current_point
    prev_support_point_opt,         \* let mut prev_support_point_opt
    path_start_point,               \* let mut path_start_point
    path_start_point_initialized,   \* let mut path_start_point_initialized
    point_iterator,                 \* Option: the iterator of the segment in progress
    path_segment,                   \* Option: the segment last given to the closure
    before,                         \* the captured state when it was given, and the
                                    \* command of the segment before it
    emitted,                        \* the points yielded for path_segment so far
    fed,                            \* how many segments the closure was given
    segments,                       \* the whole input (SpecPull)
    output,                         \* the points yielded so far (SpecPull)
    tick_timer,                     \* a TickTimer of its own (SpecTimer)
    ticks,                          \* what tick_timer has returned so far
    angles                          \* a raw angle, a sweep flag and the sweep
                                    \* angle made of them (SpecSweep)

vars == <<current_point, prev_support_point_opt, path_start_point,
          path_start_point_initialized, point_iterator, path_segment, before,
          emitted, fed, segments, output, tick_timer, ticks, angles>>

sampler == <<tick_timer, ticks>>

captured == <<current_point, prev_support_point_opt, path_start_point,
              path_start_point_initialized>>

NoCmd == "None"

Captured ==
    [current_point |-> current_point, prev_support_point_opt |-> prev_support_point_opt,
     path_start_point |-> path_start_point,
     path_start_point_initialized |-> path_start_point_initialized,
     cmd |-> IF IsSome(path_segment) THEN Unwrap(path_segment).cmd ELSE NoCmd]

NothingEmitted == [count |-> 0, last |-> None]

\* a flag that ClosePath does not clear
next_path_start_point_initialized_kept(initialized, cmd) ==
    initialized \/ cmd # "ClosePath"

\* an anchor that every MoveTo moves
next_path_start_point_on_move_to(initialized, cmd, start_point, new_current_point) ==
    IF (~initialized /\ cmd # "ClosePath") \/ cmd = "MoveTo"
    THEN new_current_point ELSE start_point

\* svg_curve.rs 41-46: the subpath-start flag and anchor after a segment
next_path_start_point_initialized(initialized, cmd) ==
    IF ~initialized /\ cmd # "ClosePath" THEN TRUE
    ELSE IF cmd = "ClosePath" THEN FALSE
    ELSE initialized

next_path_start_point(initialized, cmd, start_point, new_current_point) ==
    IF ~initialized /\ cmd # "ClosePath" THEN new_current_point ELSE start_point

\* the body of the flat_map closure after calc_point_iterator returned it
Closure(segment, it) ==
    /\ prev_support_point_opt' = PointIterator_support_point(it)
    /\ current_point' = PointIterator_end_position(it)
    /\ path_start_point_initialized' =
           next_path_start_point_initialized(path_start_point_initialized, segment.cmd)
    /\ path_start_point' =
           next_path_start_point(path_start_point_initialized, segment.cmd,
                                 path_start_point, PointIterator_end_position(it))
    /\ path_segment' = Some(segment)
    /\ before' = Captured

\* nothing asked of tick_timer yet: how many values it yielded, the last two,
\* whether it returned None, and whether it yielded a value after that
NoTicks == [count |-> 0, last |-> None, prev |-> None, ended |-> FALSE, resumed |-> FALSE]

\* no angle given to the sweep adjustment of ellipse_support_calc
NoAngles == [raw |-> QZero, sweep |-> FALSE, sweep_angle |-> None]

\* the closure's captured variables as points_from_path_segments sets them
InitCaptured ==
    /\ current_point = ZERO
    /\ prev_support_point_opt = None
    /\ path_start_point = ZERO
    /\ path_start_point_initialized = FALSE
    /\ point_iterator = None
    /\ path_segment = None
    /\ before = [current_point |-> ZERO, prev_support_point_opt |-> None,
                 path_start_point |-> ZERO, path_start_point_initialized |-> FALSE,
                 cmd |-> NoCmd]
    /\ emitted = NothingEmitted
    /\ fed = 0
    /\ output = <<>>
    /\ tick_timer = F64TickTimer_default
    /\ ticks = NoTicks

Init ==
    /\ InitCaptured
    /\ angles = NoAngles
    /\ segments = <<>>

\* ------------------------------------------------------------------------
\* Inputs.  The resolved points of a segment lie on a grid of GridStep; a
\* relative segment carries the offsets from the cursor that resolve there.
\* Control and support points stay within MaxGrid steps of the origin.
MaxGrid == 2

\* the longest path fed to the closure
MaxSegments == 3

\* the spacing of the grid
GridStep == 10

P(i, j) == Point_new(i * GridStep, j * GridStep)

InBox(p) == Abs(p.x) <= MaxGrid * GridStep /\ Abs(p.y) <= MaxGrid * GridStep

Ends == {P(0, 0), P(1, 0), P(2, 0), P(2, 2)}

\* <<p1, end>> of Quadratic, <<p2, end>> of SmoothCurveTo
CtrlEnd == {<<P(1, 0), P(2, 0)>>, <<P(1, 1), P(2, 2)>>, <<P(1, 1), P(2, 0)>>,
            <<P(2, 0), P(0, 0)>>}

\* <<p1, p2, end>> of CurveTo
CtrlCtrlEnd == {<<P(1, 0), P(2, 0), P(2, 0)>>, <<P(1, 1), P(1, 1), P(2, 2)>>,
                <<P(1, 0), P(1, 1), P(2, 0)>>, <<P(1, 1), P(2, 0), P(0, 0)>>}

\* <<rx, ry, x_axis_rotation, large_arc, sweep, end>> of EllipticalArc
ArcShapes == {<<0, GridStep, 0, FALSE, TRUE, P(2, 0)>>,
              <<GridStep, 0, 90, TRUE, FALSE, P(2, 2)>>,
              <<GridStep, GridStep, 0, FALSE, TRUE, P(2, 0)>>,
              <<2 * GridStep, 2 * GridStep, 90, TRUE, TRUE, P(2, 2)>>,
              <<GridStep \div 2, GridStep \div 2, 0, FALSE, FALSE, P(0, 0)>>,
              <<GridStep, GridStep, 180, TRUE, FALSE, P(2, 2)>>}

\* the rounding of one ellipse sample: none, or one unit on one coordinate
Roundings == {<<0, 0>>, <<1, 0>>, <<-1, 0>>, <<0, 1>>, <<0, -1>>}

NoRounding == <<0, 0>>

\* the coordinates that resolve to target from the cursor cur
Arg(abs, cur, target) == IF abs THEN target ELSE Point_sub(target, cur)

\* a segment the model can evaluate: its end is one of Ends, its support point
\* stays in the box, and a sampled arc lies where the arc arithmetic is exact
ArcEvaluableTo(cur, s, end_point) ==
    (s.cmd = "EllipticalArc" /\ end_point # cur /\ s.rx # 0 /\ s.ry # 0)
    => ArcIsExact(cur, s.rx, s.ry, s.x_axis_rotation, s.large_arc, s.sweep,
                  end_point.x, end_point.y)

ArcEvaluable(cur, s) == ArcEvaluableTo(cur, s, absolute_point_coord(cur, s.abs, s.x, s.y))

Evaluable(it) ==
    /\ PointIterator_end_position(it) \in Ends
    /\ IsSome(PointIterator_support_point(it))
           => InBox(Unwrap(PointIterator_support_point(it)).point)

RoundingsOf(it) == IF it.variant = "EllipseCurve" THEN Roundings ELSE {NoRounding}

\* ------------------------------------------------------------------------
\* One segment from the input, the closure's run on it, and the consumer
\* taking every point of the iterator it returned.
ProcessSegment(segment) ==
    /\ fed < MaxSegments
    /\ fed' = fed + 1
    /\ ArcEvaluable(current_point, segment)
    /\ \E it \in {calc_point_iterator(current_point, segment, prev_support_point_opt,
                                      path_start_point)} :
        /\ Evaluable(it)
        /\ Closure(segment, it)
        /\ \E rounding \in RoundingsOf(it) :
            LET move_type == PointIterator_move_type(it)
                n         == PointIterator_count(it)
            IN  emitted' =
                  [count |-> n,
                   last  |-> IF n = 0 THEN None
                             ELSE Some(LineTo_new(PointIterator_last(it, rounding),
                                                  move_type))]
        /\ point_iterator' = Some(PointIterator_drained(it))
    /\ UNCHANGED <<segments, output, sampler, angles>>

\* the segment of command cmd whose end resolves to e
SegmentTo(cmd, abs, e) ==
    PathSegment(cmd, abs, 0, 0, 0, 0,
                Arg(abs, current_point, e).x, Arg(abs, current_point, e).y)

FeedMoveTo == \E abs \in BOOLEAN, e \in Ends : ProcessSegment(SegmentTo("MoveTo", abs, e))

FeedLineTo == \E abs \in BOOLEAN, e \in Ends : ProcessSegment(SegmentTo("LineTo", abs, e))

FeedHorizontalLineTo ==
    \E abs \in BOOLEAN, e \in Ends :
        ProcessSegment([SegmentTo("HorizontalLineTo", abs, e) EXCEPT !.y = 0])

FeedVerticalLineTo ==
    \E abs \in BOOLEAN, e \in Ends :
        ProcessSegment([SegmentTo("VerticalLineTo", abs, e) EXCEPT !.x = 0])

FeedCurveTo ==
    \E abs \in BOOLEAN, c \in CtrlCtrlEnd :
        ProcessSegment([SegmentTo("CurveTo", abs, c[3]) EXCEPT
                            !.x1 = Arg(abs, current_point, c[1]).x,
                            !.y1 = Arg(abs, current_point, c[1]).y,
                            !.x2 = Arg(abs, current_point, c[2]).x,
                            !.y2 = Arg(abs, current_point, c[2]).y])

FeedSmoothCurveTo ==
    \E abs \in BOOLEAN, c \in CtrlEnd :
        ProcessSegment([SegmentTo("SmoothCurveTo", abs, c[2]) EXCEPT
                            !.x2 = Arg(abs, current_point, c[1]).x,
                            !.y2 = Arg(abs, current_point, c[1]).y])

FeedQuadratic ==
    \E abs \in BOOLEAN, c \in CtrlEnd :
        ProcessSegment([SegmentTo("Quadratic", abs, c[2]) EXCEPT
                            !.x1 = Arg(abs, current_point, c[1]).x,
                            !.y1 = Arg(abs, current_point, c[1]).y])

FeedSmoothQuadratic ==
    \E abs \in BOOLEAN, e \in Ends : ProcessSegment(SegmentTo("SmoothQuadratic", abs, e))

FeedEllipticalArc ==
    \E abs \in BOOLEAN, a \in ArcShapes :
        ProcessSegment(EllipticalArc(abs, a[1], a[2], a[3], a[4], a[5],
                                     Arg(abs, current_point, a[6]).x,
                                     Arg(abs, current_point, a[6]).y))

FeedClosePath == \E abs \in BOOLEAN : ProcessSegment(SegmentTo("ClosePath", abs, ZERO))

Next ==
    \/ FeedMoveTo
    \/ FeedLineTo
    \/ FeedHorizontalLineTo
    \/ FeedVerticalLineTo
    \/ FeedCurveTo
    \/ FeedSmoothCurveTo
    \/ FeedQuadratic
    \/ FeedSmoothQuadratic
    \/ FeedEllipticalArc
    \/ FeedClosePath

Spec == Init /\ [][Next]_vars

\* ------------------------------------------------------------------------
\* The same function pulled one point at a time: flat_map holds the iterator
\* the closure returned, takes its points one by one, and asks the input for
\* the next segment when it is exhausted.
Abs3(cmd, p1, p2, e) == PathSegment(cmd, TRUE, p1.x, p1.y, p2.x, p2.y, e.x, e.y)

Rel3(cmd, p1, p2, e) == PathSegment(cmd, FALSE, p1.x, p1.y, p2.x, p2.y, e.x, e.y)

\* MoveTo(0,0), LineTo(10,0), CurveTo(p1=(10,0), p2=(20,0), end=(20,0))
HorizontalScenario ==
    <<Abs3("MoveTo", ZERO, ZERO, P(0, 0)), Abs3("LineTo", ZERO, ZERO, P(1, 0)),
      Abs3("CurveTo", P(1, 0), P(2, 0), P(2, 0))>>

\* the same shape along the diagonal
DiagonalScenario ==
    <<Abs3("MoveTo", ZERO, ZERO, P(0, 0)), Abs3("LineTo", ZERO, ZERO, P(1, 1)),
      Abs3("CurveTo", P(1, 1), P(2, 2), P(2, 2))>>

Scenarios ==
    {HorizontalScenario,
     DiagonalScenario,
     <<Abs3("MoveTo", ZERO, ZERO, P(1, 0)),
       EllipticalArc(FALSE, 0, GridStep, 0, FALSE, TRUE, 0, 0),
       Rel3("LineTo", ZERO, ZERO, P(1, 0)),
       Abs3("ClosePath", ZERO, ZERO, ZERO)>>,
     <<Rel3("Quadratic", P(1, 1), ZERO, P(2, 0)),
       Rel3("SmoothQuadratic", ZERO, ZERO, P(0, 2)),
       Abs3("SmoothCurveTo", ZERO, P(2, 0), P(0, 0))>>}

InitPull ==
    /\ InitCaptured
    /\ angles = NoAngles
    /\ segments \in Scenarios

\* flat_map takes the next segment and calls the closure on it
PullFeed ==
    /\ point_iterator = None
    /\ fed < Len(segments)
    /\ fed' = fed + 1
    /\ \E it \in {calc_point_iterator(current_point, segments[fed + 1],
                                      prev_support_point_opt, path_start_point)} :
        /\ Closure(segments[fed + 1], it)
        /\ point_iterator' = Some(it)
    /\ emitted' = NothingEmitted
    /\ UNCHANGED <<segments, output, sampler, angles>>

\* the iterator yields a point, mapped to a LineTo of the segment's move type
PullYield ==
    /\ IsSome(point_iterator)
    /\ \E rounding \in RoundingsOf(Unwrap(point_iterator)) :
        \E n \in {PointIterator_next(Unwrap(point_iterator), rounding)} :
            /\ IsSome(n[1])
            /\ output' = Append(output,
                                LineTo_new(Unwrap(n[1]),
                                           PointIterator_move_type(Unwrap(point_iterator))))
            /\ emitted' = [count |-> emitted.count + 1, last |-> Some(output'[Len(output')])]
            /\ point_iterator' = Some(n[2])
    /\ UNCHANGED <<captured, path_segment, before, fed, segments, sampler, angles>>

\* the iterator returns None and flat_map drops it
PullExhaust ==
    /\ IsSome(point_iterator)
    /\ PointIterator_next(Unwrap(point_iterator), NoRounding)[1] = None
    /\ point_iterator' = None
    /\ UNCHANGED <<captured, path_segment, before, emitted, fed, segments, output, sampler, angles>>

NextPull == PullFeed \/ PullYield \/ PullExhaust

SpecPull == InitPull /\ [][NextPull]_vars

\* ------------------------------------------------------------------------
\* tick_timer.rs alone: a fresh TickTimer asked for its next value again and
\* again, in f64.
TimerYield ==
    /\ \E n \in {F64TickTimer_next(tick_timer)} :
        /\ IsSome(n[1])
        /\ tick_timer' = n[2]
        /\ ticks' = [count   |-> ticks.count + 1,
                     last    |-> n[1],
                     prev    |-> ticks.last,
                     ended   |-> ticks.ended,
                     resumed |-> ticks.ended]
    /\ UNCHANGED <<captured, point_iterator, path_segment, before, emitted, fed,
                   segments, output, angles>>

TimerEnd ==
    /\ \E n \in {F64TickTimer_next(tick_timer)} :
        /\ n[1] = None
        /\ tick_timer' = n[2]
        /\ ticks' = [ticks EXCEPT !.ended = TRUE]
    /\ UNCHANGED <<captured, point_iterator, path_segment, before, emitted, fed,
                   segments, output, angles>>

NextTimer == TimerYield \/ TimerEnd

SpecTimer == Init /\ [][NextTimer]_vars

\* ------------------------------------------------------------------------
\* points_from_path_segments pulled one point at a time, with the timers of
\* the sampling iterators in f64.  A sample is taken at the tick nearest to
\* the f64 time the timer yielded: the curve moves by less than a fractional
\* unit between the two.
SamplingVariants == {"SquareCurve", "CubicCurve", "EllipseCurve"}

\* TickTimer::default() in the iterator constructors
WithF64Timer(it) ==
    IF it.variant \in SamplingVariants THEN [it EXCEPT !.time = F64TickTimer_default] ELSE it

\* whether the angle of EllipseCurve::at, start_angle + sweep_angle * time,
\* is a whole number of quarter turns, where the model's cos and sin are
\* defined
AngleIsQuarter(self, time) ==
    /\ IsQuarter(self.start_angle)
    /\ IsQuarter(self.sweep_angle)
    /\ (self.sweep_angle[1] * time) % OneTick = 0

\* EllipseCurve::at elsewhere: the point of the ellipse at that time, cos and
\* sin left unevaluated
EllipseSample(self, time) == [ellipse |-> self, time |-> time]

F64PointIterator_at(self, t, rounding) ==
    IF self.variant = "EllipseCurve" /\ ~AngleIsQuarter(self.calc_formula, NearestTick(t))
    THEN EllipseSample(self.calc_formula, NearestTick(t))
    ELSE PointIterator_at(self, NearestTick(t), rounding)

\* self.time.next().map(|time| self.calc_formula.at(time)), for the result t
\* of self.time.next()
F64PointIterator_sample(self, t, rounding) ==
    IF IsSome(t[1])
    THEN <<Some(F64PointIterator_at(self, Unwrap(t[1]), rounding)), [self EXCEPT !.time = t[2]]>>
    ELSE <<None, [self EXCEPT !.time = t[2]]>>

\* impl Iterator for PointIterator: <<item, self afterwards>>
F64PointIterator_next(self, rounding) ==
    CASE self.variant = "Empty" -> <<None, self>>
      [] self.variant = "Line" ->
            IF self.done THEN <<None, self>>
            ELSE <<Some(self.end), [self EXCEPT !.done = TRUE]>>
      [] OTHER ->
            CHOOSE n \in {F64PointIterator_sample(self, t, rounding) :
                              t \in {F64TickTimer_next(self.time)}} : TRUE

\* MoveTo(0,0), Quadratic(p1=(5,10), end=(10,0))
QuadraticScenario ==
    <<Abs3("MoveTo", ZERO, ZERO, P(0, 0)),
      Abs3("Quadratic", Point_new(GridStep \div 2, GridStep), ZERO, P(1, 0))>>

\* M0,0 A20,20 90 1 1 20,20: three quarters of a circle
ArcScenario ==
    <<Abs3("MoveTo", ZERO, ZERO, P(0, 0)),
      EllipticalArc(TRUE, 2 * GridStep, 2 * GridStep, 90, TRUE, TRUE, 2 * GridStep, 2 * GridStep)>>

\* segments of no point and of one point around a sampled cubic
MixedScenario ==
    <<Abs3("MoveTo", ZERO, ZERO, P(1, 0)),
      EllipticalArc(FALSE, GridStep, GridStep, 0, FALSE, TRUE, 0, 0),
      Rel3("CurveTo", P(0, 1), P(1, 1), P(1, 0)),
      Rel3("SmoothCurveTo", ZERO, P(1, 1), P(2, 2)),
      Abs3("ClosePath", ZERO, ZERO, ZERO)>>

F64Scenarios == {QuadraticScenario, ArcScenario, MixedScenario}

F64Init ==
    /\ InitCaptured
    /\ angles = NoAngles
    /\ segments \in F64Scenarios

F64Feed ==
    /\ point_iterator = None
    /\ fed < Len(segments)
    /\ fed' = fed + 1
    /\ \E it \in {calc_point_iterator(current_point, segments[fed + 1],
                                      prev_support_point_opt, path_start_point)} :
        /\ Closure(segments[fed + 1], it)
        /\ point_iterator' = Some(WithF64Timer(it))
    /\ emitted' = NothingEmitted
    /\ UNCHANGED <<segments, output, sampler, angles>>

F64Yield ==
    /\ IsSome(point_iterator)
    /\ \E rounding \in RoundingsOf(Unwrap(point_iterator)) :
        \E n \in {F64PointIterator_next(Unwrap(point_iterator), rounding)} :
            /\ IsSome(n[1])
            /\ output' = Append(output,
                                LineTo_new(Unwrap(n[1]),
                                           PointIterator_move_type(Unwrap(point_iterator))))
            /\ emitted' = [count |-> emitted.count + 1, last |-> Some(output'[Len(output')])]
            /\ point_iterator' = Some(n[2])
    /\ UNCHANGED <<captured, path_segment, before, fed, segments, sampler, angles>>

F64Exhaust ==
    /\ IsSome(point_iterator)
    /\ F64PointIterator_next(Unwrap(point_iterator), NoRounding)[1] = None
    /\ point_iterator' = None
    /\ UNCHANGED <<captured, path_segment, before, emitted, fed, segments, output, sampler, angles>>

F64Next == F64Feed \/ F64Yield \/ F64Exhaust

SpecF64 == F64Init /\ [][F64Next]_vars

\* the consumer keeps pulling: whenever a step of the iteration is possible,
\* one is taken
F64FairInit ==
    /\ InitCaptured
    /\ angles = NoAngles
    /\ segments \in {QuadraticScenario, MixedScenario}

SpecF64Fair == F64FairInit /\ [][F64Next]_vars /\ WF_vars(F64Next)

\* ------------------------------------------------------------------------
\* math.rs: the sweep adjustment of ellipse_support_calc alone, on every raw
\* angle of a grid over [-pi, pi] and both values of the sweep flag.
AngleDen == 16

\* the multiples of 1/AngleDen of a quarter turn from -pi to pi
RawAngles == {QNorm(k, AngleDen) : k \in (-2 * AngleDen)..(2 * AngleDen)}

SweepInit ==
    /\ InitCaptured
    /\ segments = <<>>
    /\ angles \in {[raw |-> a, sweep |-> s, sweep_angle |-> None] :
                       a \in RawAngles, s \in BOOLEAN}

SweepAdjust ==
    /\ angles.sweep_angle = None
    /\ angles' = [angles EXCEPT
                      !.sweep_angle = Some(ellipse_sweep_angle(angles.raw, angles.sweep))]
    /\ UNCHANGED <<captured, point_iterator, path_segment, before, emitted, fed,
                   segments, output, sampler>>

SweepNext == SweepAdjust

SpecSweep == SweepInit /\ [][SweepNext]_vars

\* ------------------------------------------------------------------------
\* What a state shows of the segment processed last: the segment, the cursor
\* and support point it was resolved against, and its resolved points.
Fed(cmds) == IsSome(path_segment) /\ Unwrap(path_segment).cmd \in cmds

LastSegment == Unwrap(path_segment)

LastIterator == Unwrap(point_iterator)

Cursor == before.current_point

Resolved(x, y) == absolute_point_coord(Cursor, LastSegment.abs, x, y)

ResolvedEnd == Resolved(LastSegment.x, LastSegment.y)

ResolvedP1 == Resolved(LastSegment.x1, LastSegment.y1)

ResolvedP2 == Resolved(LastSegment.x2, LastSegment.y2)

\* 2*c - q for whole points
Reflect(c, q) == Point_new(2 * c.x - q.x, 2 * c.y - q.y)

\* the control point a smooth segment of the family is said to use
SaidMirror(family) ==
    IF before.cmd \in family
    THEN Reflect(Cursor, Unwrap(before.prev_support_point_opt).point)
    ELSE Cursor

\* p = c + s * (e - c) for some 0 <= s <= 1, for whole points
OnChord(c, e, p) ==
    LET dx == e.x - c.x
        dy == e.y - c.y
        px == p.x - c.x
        py == p.y - c.y
    IN  /\ px * dy = py * dx
        /\ 0 <= px * dx + py * dy
        /\ px * dx + py * dy <= dx * dx + dy * dy

CubicFamily == {"CurveTo", "SmoothCurveTo"}

QuadraticFamily == {"Quadratic", "SmoothQuadratic"}

\* the resolved control points of the curve segment processed last
ControlPoints ==
    CASE LastSegment.cmd = "CurveTo" -> {ResolvedP1, ResolvedP2}
      [] LastSegment.cmd = "SmoothCurveTo" -> {SaidMirror(CubicFamily), ResolvedP2}
      [] LastSegment.cmd = "Quadratic" -> {ResolvedP1}
      [] LastSegment.cmd = "SmoothQuadratic" -> {SaidMirror(QuadraticFamily)}

OneDraw(point) == [count |-> 1, last |-> Some(LineTo_new(point, "Draw"))]

\* the output is complete: every segment was taken and its iterator dropped
Finished == fed = Len(segments) /\ point_iterator = None

SaidOutput ==
    <<LineTo_new(P(0, 0), "Fly"), LineTo_new(P(1, 0), "Draw"), LineTo_new(P(2, 0), "Draw")>>

\* C1: MoveTo(0,0), LineTo(10,0), CurveTo(p1=(10,0), p2=(20,0), end=(20,0)),
\* all absolute, yield exactly Fly(0,0), Draw(10,0), Draw(20,0): the output is
\* never more than these three points and is these three when the input is
\* used up.  The code samples the cubic, because its second control point is
\* not judged to be on the horizontal chord.
C1_HorizontalScenarioOutput ==
    segments = HorizontalScenario
    => /\ Len(output) <= Len(SaidOutput)
       /\ output = SubSeq(SaidOutput, 1, Len(output))
       /\ Finished => output = SaidOutput

\* the scenario used up by the code: the two points of MoveTo and LineTo,
\* then every sample of the cubic
C1_HorizontalScenarioSampled ==
    /\ segments = HorizontalScenario
    /\ Finished
    /\ Len(output) = 2 + TicksPerUnit + 1
    /\ SubSeq(output, 1, 2) = SubSeq(SaidOutput, 1, 2)
    /\ output[Len(output)] = LineTo_new(P(2, 0), "Draw")

\* C2: a cubic or quadratic segment whose end differs from the cursor and
\* whose control points all lie on the chord from the cursor to the end emits
\* exactly one point, Draw(end).  The code samples such a curve when the chord
\* is horizontal or vertical and a control point is away from the cursor.
C2_ChordCurveIsOneDraw ==
    (/\ Fed(CubicFamily \cup QuadraticFamily)
     /\ ResolvedEnd # Cursor
     /\ \A p \in ControlPoints : OnChord(Cursor, ResolvedEnd, p))
    => emitted = OneDraw(ResolvedEnd)

\* a curve on a diagonal chord with its control point on the chord: one Draw
C2_DiagonalChordDegrades ==
    /\ Fed({"Quadratic"})
    /\ ResolvedEnd # Cursor
    /\ ResolvedEnd.x # Cursor.x /\ ResolvedEnd.y # Cursor.y
    /\ ResolvedP1 # Cursor
    /\ OnChord(Cursor, ResolvedEnd, ResolvedP1)
    /\ emitted = OneDraw(ResolvedEnd)

Rounded(p) ==
    {[x |-> p.x + ((p.fx + r[1]) \div FracDen), y |-> p.y + ((p.fy + r[2]) \div FracDen),
      fx |-> (p.fx + r[1]) % FracDen, fy |-> (p.fy + r[2]) % FracDen] : r \in Roundings}

C4_SmoothCurveToMirror ==
    /\ Fed({"SmoothCurveTo"})
       => LastIterator =
              PointIterator_drained(
                  cubic_curve_to(Cursor, TRUE,
                                 SaidMirror(CubicFamily).x, SaidMirror(CubicFamily).y,
                                 ResolvedP2.x, ResolvedP2.y, ResolvedEnd.x, ResolvedEnd.y,
                                 LastSegment))
    /\ Fed({"SmoothCurveTo"}) /\ LastIterator.variant = "CubicCurve"
       => LastIterator.calc_formula.p1 = SaidMirror(CubicFamily)
    /\ Fed(CubicFamily)
       => prev_support_point_opt = Some(SupportPoint_new(LastSegment.cmd, ResolvedP2))

\* a relative SmoothCurveTo after a CurveTo, sampled with the reflected point
C4_RelativeSmoothAfterCurveTo ==
    /\ Fed({"SmoothCurveTo"})
    /\ before.cmd = "CurveTo"
    /\ ~LastSegment.abs
    /\ LastIterator.variant = "CubicCurve"
    /\ LastIterator.calc_formula.p1 # Cursor
    /\ LastIterator.calc_formula.p1 =
           Reflect(Cursor, Unwrap(before.prev_support_point_opt).point)

\* C5: a SmoothQuadratic processed with cursor c uses as control point
\* 2*c - q when the segment before it was a Quadratic or SmoothQuadratic with
\* control point q, and c after any other segment; the point it used is
\* recorded as the support point with the SmoothQuadratic tag, and a Quadratic
\* records its resolved control point.
C5_SmoothQuadraticMirror ==
    /\ Fed({"SmoothQuadratic"})
       => /\ LastIterator =
                 PointIterator_drained(
                     quadratic_curve_to(Cursor, TRUE,
                                        SaidMirror(QuadraticFamily).x,
                                        SaidMirror(QuadraticFamily).y,
                                        ResolvedEnd.x, ResolvedEnd.y, LastSegment))
          /\ prev_support_point_opt =
                 Some(SupportPoint_new("SmoothQuadratic", SaidMirror(QuadraticFamily)))
    /\ Fed({"SmoothQuadratic"}) /\ LastIterator.variant = "SquareCurve"
       => LastIterator.calc_formula.p1 = SaidMirror(QuadraticFamily)
    /\ Fed({"Quadratic"})
       => prev_support_point_opt = Some(SupportPoint_new("Quadratic", ResolvedP1))

\* a SmoothQuadratic after a SmoothQuadratic that itself reflected a control
\* point: the second reflects the point the first one synthesized
C5_ChainOfSmoothQuadratic ==
    /\ Fed({"SmoothQuadratic"})
    /\ before.cmd = "SmoothQuadratic"
    /\ fed = MaxSegments
    /\ LastIterator.variant = "SquareCurve"
    /\ Unwrap(before.prev_support_point_opt).point # Cursor
    /\ LastIterator.calc_formula.p1 =
           Reflect(Cursor, Unwrap(before.prev_support_point_opt).point)
    /\ Unwrap(prev_support_point_opt).point = LastIterator.calc_formula.p1

\* C6: a ClosePath emits exactly one point, Draw(a) for the anchor a, sets the
\* cursor to a, clears the support point and clears the subpath-started flag;
\* the segment after a ClosePath, unless it is a ClosePath, sets a new anchor.
C6_ClosePath ==
    /\ Fed({"ClosePath"})
       => /\ emitted = OneDraw(before.path_start_point)
          /\ current_point = before.path_start_point
          /\ prev_support_point_opt = None
          /\ ~path_start_point_initialized
    /\ (before.cmd = "ClosePath" /\ ~Fed({"ClosePath"}))
       => /\ ~before.path_start_point_initialized
          /\ path_start_point_initialized
          /\ path_start_point = current_point

\* a ClosePath after a curve that left a support point, back to an anchor
\* that is not where the cursor was
C6_ClosePathAfterCurve ==
    /\ Fed({"ClosePath"})
    /\ IsSome(before.prev_support_point_opt)
    /\ before.path_start_point_initialized
    /\ before.path_start_point # Cursor
    /\ emitted = OneDraw(before.path_start_point)
    /\ prev_support_point_opt = None

\* C7: the subpath-started flag is false at the start and after every
\* ClosePath; the first segment other than ClosePath processed while it is
\* false sets it and assigns the anchor; every later segment up to the next
\* ClosePath, a MoveTo too, leaves the anchor as it is, and that ClosePath
\* draws to it and leaves it as it is.
C7_AnchorOncePerSubpath ==
    /\ ~IsSome(path_segment) => ~path_start_point_initialized
    /\ Fed({"ClosePath"})
       => /\ ~path_start_point_initialized
          /\ path_start_point = before.path_start_point
          /\ emitted = OneDraw(before.path_start_point)
    /\ (IsSome(path_segment) /\ ~Fed({"ClosePath"}))
       => /\ path_start_point_initialized
          /\ IF before.path_start_point_initialized
             THEN path_start_point = before.path_start_point
             ELSE path_start_point = current_point

\* a MoveTo inside a started subpath, to a point that is not the anchor
C7_MoveToKeepsAnchor ==
    /\ Fed({"MoveTo"})
    /\ before.path_start_point_initialized
    /\ current_point # Cursor
    /\ current_point # before.path_start_point
    /\ path_start_point = before.path_start_point

\* C8: the anchor is where the subpath began: the target of the MoveTo that
\* starts it, or the cursor at which its first segment started when that is a
\* drawing segment.  The code assigns the end of the first segment in both
\* cases.
C8_AnchorIsSubpathStart ==
    (IsSome(path_segment) /\ ~Fed({"ClosePath"}) /\ ~before.path_start_point_initialized)
    => path_start_point = IF Fed({"MoveTo"}) THEN ResolvedEnd ELSE Cursor

\* a subpath started by a MoveTo is anchored at the MoveTo target
C8_MoveToAnchorsAtTarget ==
    /\ Fed({"MoveTo"})
    /\ ~before.path_start_point_initialized
    /\ ResolvedEnd # Cursor
    /\ path_start_point = ResolvedEnd

\* C9: an EllipticalArc whose resolved end is the cursor emits no point,
\* whatever its radii, rotation and flags; the cursor is that end and the
\* support point is absent afterwards.
C9_CoincidentArcIsEmpty ==
    (Fed({"EllipticalArc"}) /\ ResolvedEnd = Cursor)
    => /\ emitted = NothingEmitted
       /\ current_point = ResolvedEnd
       /\ prev_support_point_opt = None

\* an arc of radius zero back to the cursor, after a curve that left a
\* support point
C9_ZeroRadiusCoincidentArc ==
    /\ Fed({"EllipticalArc"})
    /\ ResolvedEnd = Cursor
    /\ LastSegment.rx = 0 \/ LastSegment.ry = 0
    /\ IsSome(before.prev_support_point_opt)
    /\ emitted = NothingEmitted

\* C10: an EllipticalArc with rx = 0 or ry = 0 whose resolved end is not the
\* cursor emits exactly one point, Draw(end), in the absolute and in the
\* relative form; the cursor is that end and no support point is recorded.
C10_ZeroRadiusArcIsLine ==
    (/\ Fed({"EllipticalArc"})
     /\ LastSegment.rx = 0 \/ LastSegment.ry = 0
     /\ ResolvedEnd # Cursor)
    => /\ emitted = OneDraw(ResolvedEnd)
       /\ current_point = ResolvedEnd
       /\ prev_support_point_opt = None

\* a relative arc with ry = 0 from a cursor away from the origin
C10_RelativeZeroRadiusArc ==
    /\ Fed({"EllipticalArc"})
    /\ LastSegment.ry = 0
    /\ LastSegment.rx # 0
    /\ ~LastSegment.abs
    /\ Cursor # ZERO
    /\ ResolvedEnd # Cursor
    /\ emitted = OneDraw(ResolvedEnd)

\* ------------------------------------------------------------------------
\* C11: a fresh TickTimer starts at 0.0, yields strictly increasing values,
\* never yields again once it has returned None, and when it returns None it
\* has yielded 1001 values of which the last is 1.0.
C11_TickTimerYields1001 ==
    /\ ticks.count = 1 => ticks.last = Some(F64_ZERO)
    /\ IsSome(ticks.prev) => F64_less(Unwrap(ticks.prev), Unwrap(ticks.last))
    /\ ~ticks.resumed
    /\ ticks.ended => /\ ticks.count = TicksPerUnit + 1
                      /\ ticks.last = Some(F64_ONE)

\* the timer has returned None after 1000 values, the last of them below 1.0
C11_TickTimerEndsBelowOne ==
    /\ ticks.ended
    /\ ticks.count = TicksPerUnit
    /\ F64_less(Unwrap(ticks.last), F64_ONE)
    /\ NearestTick(Unwrap(ticks.last)) = TicksPerUnit - 1

\* ------------------------------------------------------------------------
\* the point a segment's x and y name: themselves when absolute, the cursor
\* moved by them when relative
Target == IF LastSegment.abs THEN Point_new(LastSegment.x, LastSegment.y) ELSE Point_new(Cursor.x + LastSegment.x, Cursor.y + LastSegment.y)

\* C12: MoveTo emits exactly one point, Fly(target), and leaves no support
\* point; the points of every other segment are tagged Draw; no point is
\* tagged Erase, and Fly is the tag of MoveTo points only.
C12_FlyOnlyForMoveTo ==
    IsSome(path_segment)
    => /\ LastSegment.cmd = "MoveTo"
          => /\ emitted = [count |-> 1, last |-> Some(LineTo_new(Target, "Fly"))]
             /\ prev_support_point_opt = None
       /\ (LastSegment.cmd # "MoveTo" /\ emitted.count > 0)
          => /\ Unwrap(emitted.last).tag = "Draw"
             /\ PointIterator_move_type(LastIterator) = "Draw"
       /\ emitted.count > 0 => Unwrap(emitted.last).tag # "Erase"

\* a relative MoveTo away from the cursor, after a curve left a support point
C12_RelativeMoveToAfterCurve ==
    /\ Fed({"MoveTo"})
    /\ ~LastSegment.abs
    /\ IsSome(before.prev_support_point_opt)
    /\ Cursor # ZERO
    /\ Target # Cursor
    /\ emitted = [count |-> 1, last |-> Some(LineTo_new(Target, "Fly"))]

\* ------------------------------------------------------------------------
\* The Bezier polynomials in powers of t, by Horner's rule, for whole control
\* points and t = time / TicksPerUnit.  One coordinate, as <<whole, frac>>.
SquarePower(s, p, e, time) ==
    LET n == ((s - 2 * p + e) * time + 2 * (p - s) * TicksPerUnit) * time
    IN  <<s + (n \div SplitBase), (n % SplitBase) * TicksPerUnit>>

CubicPower(s, p, q, e, time) ==
    LET v  == ((e - 3 * q + 3 * p - s) * time + 3 * (s - 2 * p + q) * TicksPerUnit) * time
              + 3 * (p - s) * SplitBase
        lo == (v % SplitBase) * time
        hi == (v \div SplitBase) * time + (lo \div SplitBase)
    IN  <<s + (hi \div TicksPerUnit), (hi % TicksPerUnit) * SplitBase + (lo % SplitBase)>>

SquarePowerAt(f, time) ==
    LET cx == SquarePower(f.start.x, f.p1.x, f.end.x, time)
        cy == SquarePower(f.start.y, f.p1.y, f.end.y, time)
    IN  [x |-> cx[1], y |-> cy[1], fx |-> cx[2], fy |-> cy[2]]

CubicPowerAt(f, time) ==
    LET cx == CubicPower(f.start.x, f.p1.x, f.p2.x, f.end.x, time)
        cy == CubicPower(f.start.y, f.p1.y, f.p2.y, f.end.y, time)
    IN  [x |-> cx[1], y |-> cy[1], fx |-> cx[2], fy |-> cy[2]]

\* C13: SquareCurve::at and CubicCurve::at give the start point at 0, the end
\* point at 1, and at every time the timer yields the value of the Bezier
\* polynomial of their control points.
C13_BezierEvaluators ==
    /\ (IsSome(point_iterator) /\ LastIterator.variant = "SquareCurve")
       => LET f == LastIterator.calc_formula
          IN  /\ SquareCurve_at(f, 0) = f.start
              /\ SquareCurve_at(f, OneTick) = f.end
              /\ \A time \in 0..OneTick : SquareCurve_at(f, time) = SquarePowerAt(f, time)
    /\ (IsSome(point_iterator) /\ LastIterator.variant = "CubicCurve")
       => LET f == LastIterator.calc_formula
          IN  /\ CubicCurve_at(f, 0) = f.start
              /\ CubicCurve_at(f, OneTick) = f.end
              /\ \A time \in 0..OneTick : CubicCurve_at(f, time) = CubicPowerAt(f, time)

\* a sampled quadratic whose control point is off the chord: its sample at
\* half time is a quarter of start + 2 * p1 + end
C13_SampledQuadratic ==
    /\ Fed({"Quadratic"})
    /\ LastIterator.variant = "SquareCurve"
    /\ emitted.count = TicksPerUnit + 1
    /\ ~OnChord(Cursor, ResolvedEnd, ResolvedP1)
    /\ LET f == LastIterator.calc_formula
           h == SquareCurve_at(f, OneTick \div 2)
       IN  /\ 4 * h.x + h.fx \div (FracDen \div 4) = f.start.x + 2 * f.p1.x + f.end.x
           /\ 4 * h.y + h.fy \div (FracDen \div 4) = f.start.y + 2 * f.p1.y + f.end.y

\* ------------------------------------------------------------------------
\* C14: for an EllipticalArc whose end differs from the cursor and whose
\* radii are not zero, the evaluator is at the cursor at time 0 and at the
\* resolved end at time 1, so that the first point of the arc is the cursor
\* and, when the arc has given all its points, the last one is the end point
\* stored as the new cursor, each up to the rounding of one evaluation.
C14_ArcSamplesFromCursorToEnd ==
    (/\ Fed({"EllipticalArc"})
     /\ Target # Cursor
     /\ LastSegment.rx # 0 /\ LastSegment.ry # 0)
    => /\ IsSome(point_iterator)
          => /\ EllipseCurve_at_exact(LastIterator.calc_formula, 0) = Cursor
             /\ EllipseCurve_at_exact(LastIterator.calc_formula, OneTick) = Target
       /\ current_point = Target
       /\ emitted.count = 1 => Unwrap(emitted.last).point \in Rounded(Cursor)
       /\ point_iterator = None => Unwrap(emitted.last).point \in Rounded(current_point)

\* the arc M0,0 A20,20 90 1 1 20,20 has given all its points: the first was
\* the cursor, the last one is not the end
C14_ArcStopsShortOfEnd ==
    /\ segments = ArcScenario
    /\ Finished
    /\ Len(output) = 1 + TicksPerUnit
    /\ output[2].point \in Rounded(ZERO)
    /\ current_point = P(2, 2)
    /\ output[Len(output)].point \notin Rounded(current_point)

\* ------------------------------------------------------------------------
\* how many points the segment in progress has given, by its iterator: none
\* for Empty, at most the one of Line, one per value its timer has yielded for
\* a sampling iterator, and never more than 1001
PointsAreCounted ==
    /\ emitted.count <= TicksPerUnit + 1
    /\ IsSome(point_iterator)
       => CASE LastIterator.variant = "Empty" -> emitted.count = 0
            [] LastIterator.variant = "Line" ->
                    emitted.count = (IF LastIterator.done THEN 1 ELSE 0)
            [] OTHER -> emitted.count = NearestTick(LastIterator.time.time)

\* a segment is taken only when the iterator of the segment before it has
\* returned None, a point is added to the output only by the iterator in
\* progress, the captured cursor, support point and anchor change only when a
\* segment is taken, and what a segment is resolved against is what the
\* closure stored for the segment before it
SegmentsInOrder ==
    /\ fed' # fed => /\ fed' = fed + 1
                     /\ point_iterator = None
                     /\ output' = output
                     /\ before'.current_point = current_point
                     /\ before'.prev_support_point_opt = prev_support_point_opt
                     /\ before'.path_start_point = path_start_point
    /\ output' # output => /\ IsSome(point_iterator)
                           /\ Len(output') = Len(output) + 1
                           /\ SubSeq(output', 1, Len(output)) = output
    /\ captured' # captured => fed' = fed + 1
    /\ (IsSome(point_iterator) /\ point_iterator' = None)
       => \/ LastIterator.variant \in {"Empty", "Line"}
          \/ F64TickTimer_next(LastIterator.time)[1] = None

\* C15: a consumer that keeps pulling reaches the end of the sequence; each
\* segment gives no point, one point, or one point per value of its timer, at
\* most 1001; the points of a segment all come before those of the next one;
\* and the cursor, support point and anchor a segment is resolved against
\* are those the segment before it produced, whenever the consumer pulls.
C15_PullingEnds ==
    /\ <>Finished
    /\ []PointsAreCounted
    /\ [][SegmentsInOrder]_vars

\* the mixed path up to the end of its first cubic: one point of MoveTo, none
\* of the arc that ends where it starts, one point per timer value of the
\* cubic, whose iterator has returned None
C15_MixedScenarioPulled ==
    /\ segments = MixedScenario
    /\ fed = 3
    /\ point_iterator = None
    /\ emitted.count = TicksPerUnit
    /\ Len(output) = 1 + 0 + TicksPerUnit
    /\ output[1].tag = "Fly"
    /\ output[2] = LineTo_new(P(1, 0), "Draw")

\* ------------------------------------------------------------------------
\* LaneTest of every resolved control point of the curve processed last
\* against the chord from the cursor to the resolved end
ControlPointsOnLane == \A p \in ControlPoints : is_point_on_lane(Cursor, ResolvedEnd, p)

\* C16: a cubic or quadratic segment emits exactly one point, Draw(end), if
\* and only if all its resolved control points pass LaneTest against the
\* chord; otherwise it emits one Draw per timer value, the first at the
\* cursor, and when its iterator has returned None it has emitted 1001
\* points of which the last is exactly the resolved end.
C16_CurveIsOneDrawOrSampledToEnd ==
    Fed(CubicFamily \cup QuadraticFamily)
    => IF ControlPointsOnLane
       THEN IsSome(point_iterator) => LastIterator.variant = "Line"
       ELSE /\ IsSome(point_iterator) => LastIterator.variant \in {"SquareCurve", "CubicCurve"}
            /\ emitted.count = 1 => emitted.last = Some(LineTo_new(Cursor, "Draw"))
            /\ point_iterator = None
               => /\ emitted.count = TicksPerUnit + 1
                  /\ emitted.last = Some(LineTo_new(ResolvedEnd, "Draw"))

\* MoveTo(0,0), Quadratic(p1=(5,10), end=(10,0)) pulled to the end: Fly(0,0)
\* and 1000 Draw points from (0,0) to the curve at t = 0.999
C16_QuadraticScenarioStopsShort ==
    /\ segments = QuadraticScenario
    /\ Finished
    /\ Len(output) = 1 + TicksPerUnit
    /\ output[2] = LineTo_new(ZERO, "Draw")
    /\ output[Len(output)].point = SquareCurve_at(SquareCurve_new(ZERO, Point_new(GridStep \div 2, GridStep), P(1, 0)), TicksPerUnit - 1)
    /\ output[Len(output)].point # P(1, 0)
    /\ current_point = P(1, 0)

\* ------------------------------------------------------------------------
\* the point that coordinates x, y of the segment processed last name
PointAt(x, y) == IF LastSegment.abs THEN Point_new(x, y) ELSE Point_new(Cursor.x + x, Cursor.y + y)

\* the trailing control point of the curve processed last: p2 of a cubic, p1
\* of a quadratic, which for SmoothQuadratic is the mirrored point
TrailingControlPoint ==
    CASE LastSegment.cmd \in CubicFamily -> PointAt(LastSegment.x2, LastSegment.y2)
      [] LastSegment.cmd = "Quadratic" -> PointAt(LastSegment.x1, LastSegment.y1)
      [] LastSegment.cmd = "SmoothQuadratic" -> SaidMirror(QuadraticFamily)

\* C17: after a segment the stored support point is present if and only if
\* the segment was a CurveTo, SmoothCurveTo, Quadratic or SmoothQuadratic;
\* it then carries the command of that segment and its resolved trailing
\* control point, whether the curve was sampled or degraded to one point.
C17_SupportPointOfCurves ==
    IsSome(path_segment)
    => IF LastSegment.cmd \in CubicFamily \cup QuadraticFamily
       THEN prev_support_point_opt = Some([path_command |-> LastSegment.cmd, point |-> TrailingControlPoint])
       ELSE prev_support_point_opt = None

\* a relative cubic from a cursor away from the origin, degraded to one
\* point, has stored its second control point
C17_DegradedCubicKeepsSupport ==
    /\ Fed({"CurveTo"})
    /\ ~LastSegment.abs
    /\ Cursor # ZERO
    /\ LastIterator.variant = "Line"
    /\ emitted = OneDraw(Target)
    /\ prev_support_point_opt = Some([path_command |-> "CurveTo", point |-> PointAt(LastSegment.x2, LastSegment.y2)])

\* ------------------------------------------------------------------------
\* the target of the line segment processed last: HorizontalLineTo keeps the
\* y of the cursor, VerticalLineTo its x
LineTarget ==
    CASE LastSegment.cmd = "LineTo" -> PointAt(LastSegment.x, LastSegment.y)
      [] LastSegment.cmd = "HorizontalLineTo" ->
            Point_new(IF LastSegment.abs THEN LastSegment.x ELSE Cursor.x + LastSegment.x, Cursor.y)
      [] LastSegment.cmd = "VerticalLineTo" ->
            Point_new(Cursor.x, IF LastSegment.abs THEN LastSegment.y ELSE Cursor.y + LastSegment.y)

\* C18: LineTo, HorizontalLineTo and VerticalLineTo emit exactly one point,
\* Draw(target), and move the cursor to it; the target of HorizontalLineTo
\* has the y of the cursor and that of VerticalLineTo its x, in the absolute
\* and in the relative form.
C18_LinesDrawToTarget ==
    Fed({"LineTo", "HorizontalLineTo", "VerticalLineTo"})
    => /\ emitted = OneDraw(LineTarget)
       /\ current_point = LineTarget
       /\ LastSegment.cmd = "HorizontalLineTo" => current_point.y = Cursor.y
       /\ LastSegment.cmd = "VerticalLineTo" => current_point.x = Cursor.x

\* an absolute VerticalLineTo from a cursor off the y axis, whose unused x
\* differs from the cursor's
C18_AbsoluteVerticalKeepsX ==
    /\ Fed({"VerticalLineTo"})
    /\ LastSegment.abs
    /\ Cursor.x # 0
    /\ LastSegment.x # Cursor.x
    /\ current_point # Cursor
    /\ emitted = OneDraw(Point_new(Cursor.x, LastSegment.y))

\* ------------------------------------------------------------------------
\* The other encoding of segment s at cursor c: the relative form with v for
\* the absolute form with c + v and the reverse; HorizontalLineTo and
\* VerticalLineTo have one coordinate, ClosePath none, and a smooth curve no
\* first control point.
Shift(s, c) == IF s.abs THEN [x |-> -c.x, y |-> -c.y] ELSE [x |-> c.x, y |-> c.y]

OtherEncoding(s, c) ==
    LET d == Shift(s, c)
        t == [s EXCEPT !.abs = ~s.abs]
    IN  CASE s.cmd = "ClosePath" -> t
          [] s.cmd = "HorizontalLineTo" -> [t EXCEPT !.x = s.x + d.x]
          [] s.cmd = "VerticalLineTo" -> [t EXCEPT !.y = s.y + d.y]
          [] s.cmd = "CurveTo" ->
                [t EXCEPT !.x1 = s.x1 + d.x, !.y1 = s.y1 + d.y, !.x2 = s.x2 + d.x,
                          !.y2 = s.y2 + d.y, !.x = s.x + d.x, !.y = s.y + d.y]
          [] s.cmd = "SmoothCurveTo" ->
                [t EXCEPT !.x2 = s.x2 + d.x, !.y2 = s.y2 + d.y, !.x = s.x + d.x, !.y = s.y + d.y]
          [] s.cmd = "Quadratic" ->
                [t EXCEPT !.x1 = s.x1 + d.x, !.y1 = s.y1 + d.y, !.x = s.x + d.x, !.y = s.y + d.y]
          [] OTHER -> [t EXCEPT !.x = s.x + d.x, !.y = s.y + d.y]

\* the iterator calc_point_iterator builds for s in the state the segment
\* processed last was given
IteratorFor(s) ==
    calc_point_iterator(Cursor, s, before.prev_support_point_opt, before.path_start_point)

\* C19: in every reachable state the absolute and the relative encoding of a
\* segment give the same iterator, hence the same tagged points, and the same
\* next cursor, support point, anchor and subpath-started flag.
C19_EncodingsAgree ==
    IsSome(path_segment)
    => LET other == IteratorFor(OtherEncoding(LastSegment, Cursor))
       IN  /\ other = IteratorFor(LastSegment)
           /\ PointIterator_drained(other) = LastIterator
           /\ PointIterator_count(other) = emitted.count
           /\ emitted.count > 0 => PointIterator_move_type(other) = Unwrap(emitted.last).tag
           /\ (emitted.count > 0 /\ other.variant # "EllipseCurve")
              => PointIterator_last(other, NoRounding) = Unwrap(emitted.last).point
           /\ PointIterator_end_position(other) = current_point
           /\ PointIterator_support_point(other) = prev_support_point_opt
           /\ path_start_point = next_path_start_point(before.path_start_point_initialized, LastSegment.cmd, before.path_start_point, PointIterator_end_position(other))
           /\ path_start_point_initialized = next_path_start_point_initialized(before.path_start_point_initialized, LastSegment.cmd)

\* a relative SmoothQuadratic after a quadratic, from a cursor away from the
\* origin: its absolute form has other coordinates and gives the same curve
C19_RelativeSmoothQuadraticTwin ==
    /\ Fed({"SmoothQuadratic"})
    /\ ~LastSegment.abs
    /\ before.cmd \in QuadraticFamily
    /\ Cursor # ZERO
    /\ OtherEncoding(LastSegment, Cursor).x # LastSegment.x
    /\ LastIterator.variant = "SquareCurve"
    /\ IteratorFor(OtherEncoding(LastSegment, Cursor)) = IteratorFor(LastSegment)

\* ------------------------------------------------------------------------
\* C20: a cubic or quadratic segment whose resolved end is the cursor emits
\* exactly one point, Draw(end), whatever its control points: on a chord of
\* no length every control point passes the lane test, and the curve is not
\* sampled.
C20_ClosedLoopIsOneDraw ==
    (Fed(CubicFamily \cup QuadraticFamily) /\ Target = Cursor)
    => /\ emitted = OneDraw(Cursor)
       /\ LastIterator.variant = "Line"
       /\ \A p \in ControlPoints : is_point_on_lane(Cursor, Target, p)
       /\ current_point = Cursor

\* a cubic that returns to the cursor by two control points away from it
C20_ClosedCubic ==
    /\ Fed({"CurveTo"})
    /\ Target = Cursor
    /\ PointAt(LastSegment.x1, LastSegment.y1) # Cursor
    /\ PointAt(LastSegment.x2, LastSegment.y2) # Cursor
    /\ PointAt(LastSegment.x1, LastSegment.y1) # PointAt(LastSegment.x2, LastSegment.y2)
    /\ emitted = OneDraw(Cursor)

\* ------------------------------------------------------------------------
\* C21: from a raw angle in [-pi, pi] the sweep angle that
\* ellipse_support_calc returns is on the side the sweep flag asks for, not
\* negative when sweep is true and not positive when it is false, and is
\* less than a full turn in magnitude.
C21_SweepAngleFollowsFlag ==
    IsSome(angles.sweep_angle)
    => LET a == Unwrap(angles.sweep_angle)
       IN  /\ angles.sweep => ~QLess(a, QZero)
           /\ ~angles.sweep => ~QLess(QZero, a)
           /\ QLess(QAbs(a), QMul(QInt(2), PI))

\* a negative raw angle off the quarter turns, asked to sweep forward, was
\* moved up by a full turn
C21_NegativeAngleSweptForward ==
    /\ IsSome(angles.sweep_angle)
    /\ angles.sweep
    /\ QLess(angles.raw, QZero)
    /\ ~IsQuarter(angles.raw)
    /\ Unwrap(angles.sweep_angle) = QAdd(angles.raw, QMul(QInt(2), PI))
    /\ QLess(PI, Unwrap(angles.sweep_angle))

====
